---- MODULE Spec2Model ----
(***************************************************************************)
(* Model of "01 Datenextraktion/ocr_images.py": a batch OCR driver.        *)
(*                                                                         *)
(* Strings are sequences of code points, so that splitting, stripping,     *)
(* substring search, suffix extraction, lower-casing and ordering are      *)
(* computed character by character as Python computes them.                *)
(*                                                                         *)
(* The OCR engine (pytesseract), PIL and the file system are collaborators *)
(* outside the source: every answer they give is an input drawn at the     *)
(* call from a finite pool, including the failure of the call.             *)
(*                                                                         *)
(* Python floats that hold k/2 are represented by the integer k (a number  *)
(* of half pixels, or of half confidence points): see TrueDiv2, FloatOf.   *)
(***************************************************************************)
EXTENDS Integers, Sequences, FiniteSets, TLC

VARIABLES
    \* ---- main(): one run of the program
    pc,             \* position of main()
    cmdArg,         \* args.tesseract_cmd: <<>> is None, <<s>> is the string s
    envCmd,         \* os.environ.get("TESSERACT_CMD"), same encoding
    tesseract_cmd,  \* pytesseract.pytesseract.tesseract_cmd (module global)
    imgDir,         \* args.img_dir, and the folder argument of iter_images
    imgDirKind,     \* what args.img_dir names: "missing", "file", "dir", or
                    \* "denied" (a path that stat() is refused on)
    entries,        \* the directory's entries: records [name, kind]
    outFile0,       \* args.output when the run starts: [state, content], state
                    \* "absent", "report" (a whole report), "truncated" or
                    \* "directory"
    outFile,        \* args.output now
    images,         \* the list iter_images(img_dir) the for loop walks
    idx,            \* 1-based position of the loop in images
    rotation,       \* local variable rotation of main()
    result,         \* result["images"]
    calls,          \* every call made to a collaborator so far, in order
    exitCode,       \* -1 while running, else the process exit status
    \* ---- the pure functions, applied to one drawn input
    phase,          \* "idle", "call" (input drawn) or "ret" (function returned)
    osd,            \* text block given by image_to_osd
    orient,         \* outcome of detect_orientation(osd)
    data,           \* token table given by image_to_data
    rot,            \* rotation argument of extract_words
    words,          \* value returned by extract_words(data, rot)
    folder,         \* directory entries given to iter_images
    listing         \* value returned by iter_images(folder)

mainVars == <<pc, cmdArg, envCmd, tesseract_cmd, imgDir, imgDirKind, entries, outFile0,
              outFile, images, idx, rotation, result, calls, exitCode>>
fnVars   == <<phase, osd, orient, data, rot, words, folder, listing>>
vars     == <<mainVars, fnVars>>

----------------------------------------------------------------------------
(* Bounds of the model *)

\* longest orientation block, in lines
MaxLines == 2
\* longest token table, in tokens
MaxTokens == 2
\* most entries of the image directory in a run of main()
MaxEntries == 3

----------------------------------------------------------------------------
(* Characters and Python's string primitives *)

\* A str is the sequence of the code points of its characters (ord of each).
\* The alphabet of the model is Latin-1 (0..255) and the white space, the
\* line boundaries and the decimal digits Unicode has beyond it.

\* the characters the program's text names
Colon == 58
Slash == 47
Dot == 46
Underscore == 95
Plus == 43
Minus == 45
LF == 10
CR == 13

\* str.isspace(): what str.strip() removes
Whitespace ==
    {9, 10, 11, 12, 13, 28, 29, 30, 31, 32, 133, 160, 5760} \cup (8192..8202)
        \cup {8232, 8233, 8239, 8287, 12288}

\* what int() ignores around a literal: white space but the separators 28..31
IntSpace == Whitespace \ (28..31)

\* the line boundaries of str.splitlines(); CR LF is one boundary
LineBreaks == {10, 11, 12, 13, 28, 29, 30, 133, 8232, 8233}

\* the code points of the digit zero of every script (Unicode 14, category
\* Nd): the nine code points after each are its digits one to nine
DigitZeros ==
    { 48, 1632, 1776, 1984, 2406, 2534, 2662, 2790, 2918, 3046, 3174, 3302, 3430,
      3558, 3664, 3792, 3872, 4160, 4240, 6112, 6160, 6470, 6608, 6784, 6800, 6992,
      7088, 7232, 7248, 42528, 43216, 43264, 43472, 43504, 43600, 44016, 65296,
      66720, 68912, 69734, 69872, 69942, 70096, 70384, 70736, 70864, 71248, 71360,
      71472, 71904, 72016, 72784, 73040, 73120, 92768, 92864, 93008, 120782,
      120792, 120802, 120812, 120822, 123200, 123632, 125264, 130032 }

\* the decimal digits int() accepts
Digits == UNION { z..(z + 9) : z \in DigitZeros }

\* str.lower() on one character
LowerChar(c) ==
    IF c \in 65..90 \/ c \in 192..214 \/ c \in 216..222 THEN c + 32 ELSE c

\* str.lower()
Lower(s) == [i \in 1..Len(s) |-> LowerChar(s[i])]

\* first index of character c in s, 0 when absent (str.find(c) + 1)
Find(s, c) ==
    IF \E i \in 1..Len(s) : s[i] = c
    THEN CHOOSE i \in 1..Len(s) : s[i] = c /\ \A j \in 1..(i - 1) : s[j] # c
    ELSE 0

\* last index of character c in s, 0 when absent (str.rfind(c) + 1)
RFind(s, c) ==
    IF \E i \in 1..Len(s) : s[i] = c
    THEN CHOOSE i \in 1..Len(s) : s[i] = c /\ \A j \in (i + 1)..Len(s) : s[j] # c
    ELSE 0

\* pat in s
Contains(s, pat) ==
    \E i \in 0..(Len(s) - Len(pat)) : SubSeq(s, i + 1, i + Len(pat)) = pat

\* s without its leading, and without its trailing, characters of the set ws
RECURSIVE LStripOf(_, _)
LStripOf(s, ws) == IF s # <<>> /\ s[1] \in ws THEN LStripOf(Tail(s), ws) ELSE s

RECURSIVE RStripOf(_, _)
RStripOf(s, ws) ==
    IF s # <<>> /\ s[Len(s)] \in ws
    THEN RStripOf(SubSeq(s, 1, Len(s) - 1), ws)
    ELSE s

\* str.lstrip(), str.rstrip(), str.strip()
LStrip(s) == LStripOf(s, Whitespace)
RStrip(s) == RStripOf(s, Whitespace)
Strip(s) == RStrip(LStrip(s))

\* str.splitlines(): no empty last line after a final boundary
RECURSIVE SplitLines(_)
SplitLines(s) ==
    IF s = <<>> THEN <<>>
    ELSE IF \A i \in 1..Len(s) : s[i] \notin LineBreaks THEN <<s>>
    ELSE LET i == CHOOSE k \in 1..Len(s) :
                      s[k] \in LineBreaks /\ \A j \in 1..(k - 1) : s[j] \notin LineBreaks
             n == IF s[i] = CR /\ i < Len(s) /\ s[i + 1] = LF THEN 2 ELSE 1
         IN  <<SubSeq(s, 1, i - 1)>> \o SplitLines(SubSeq(s, i + n, Len(s)))

\* str.split(c): always at least one part
RECURSIVE Split(_, _)
Split(s, c) ==
    LET i == Find(s, c)
    IN  IF i = 0 THEN <<s>>
        ELSE <<SubSeq(s, 1, i - 1)>> \o Split(SubSeq(s, i + 1, Len(s)), c)

\* outcome of a call that returns an integer or raises
Returned(n) == [ok |-> TRUE, val |-> n, err |-> ""]
Raised(e)   == [ok |-> FALSE, val |-> 0, err |-> e]

\* the value of a decimal digit: its distance from the zero of its script
DigitVal(c) == c - (CHOOSE z \in DigitZeros : c \in z..(z + 9))

\* the most digits a literal given to int() may have
\* (sys.get_int_max_str_digits() as the interpreter starts)
MaxStrDigits == 4300

\* value of a run of digits and underscores, read left to right
RECURSIVE DecVal(_, _)
DecVal(s, acc) ==
    IF s = <<>> THEN acc
    ELSE IF s[1] = Underscore THEN DecVal(Tail(s), acc)
    ELSE DecVal(Tail(s), 10 * acc + DigitVal(s[1]))

\* s without the zeros and underscores it starts with
Significant(s) ==
    LET nz == {i \in 1..Len(s) : s[i] # Underscore /\ DigitVal(s[i]) # 0}
    IN  IF nz = {} THEN <<>>
        ELSE SubSeq(s, CHOOSE i \in nz : \A j \in nz : i <= j, Len(s))

\* int(s) for a str s: surrounding white space is ignored, then an optional
\* sign, then decimal digits that single underscores may separate, at most
\* MaxStrDigits of them (leading zeros count)
PyInt(s) ==
    LET t      == RStripOf(LStripOf(s, IntSpace), IntSpace)
        signed == t # <<>> /\ t[1] \in {Plus, Minus}
        body   == IF signed THEN Tail(t) ELSE t
        wellFormed ==
            /\ body # <<>>
            /\ \A i \in 1..Len(body) : body[i] \in Digits \cup {Underscore}
            /\ body[1] # Underscore
            /\ body[Len(body)] # Underscore
            /\ \A i \in 1..(Len(body) - 1) :
                  ~(body[i] = Underscore /\ body[i + 1] = Underscore)
        digits == {i \in 1..Len(body) : body[i] \in Digits}
    IN  IF ~wellFormed THEN Raised("ValueError")
        ELSE IF Cardinality(digits) > MaxStrDigits THEN Raised("ValueError")
        ELSE IF signed /\ t[1] = Minus THEN Returned(0 - DecVal(Significant(body), 0))
        ELSE Returned(DecVal(Significant(body), 0))

----------------------------------------------------------------------------
(* detect_orientation *)

Rotate == <<82, 111, 116, 97, 116, 101>>  \* "Rotate"

\* the body of detect_orientation after the engine has returned osd
RECURSIVE ScanLines(_)
ScanLines(lines) ==
    IF lines = <<>> THEN Returned(0)
    ELSE IF Contains(lines[1], Rotate)
    THEN LET parts == Split(lines[1], Colon)
         IN  IF Len(parts) # 2 THEN Raised("ValueError")
             ELSE PyInt(Strip(parts[2]))
    ELSE ScanLines(Tail(lines))

\* a plausible slip: the loop keeps the last matching line, not the first
RECURSIVE ScanLinesLast(_)
ScanLinesLast(lines) ==
    IF lines = <<>> THEN Returned(0)
    ELSE LET rest == Tail(lines)
         IN  IF Contains(lines[1], Rotate)
                /\ ~(\E i \in 1..Len(rest) : Contains(rest[i], Rotate))
             THEN LET parts == Split(lines[1], Colon)
                  IN  IF Len(parts) # 2 THEN Raised("ValueError")
                      ELSE PyInt(Strip(parts[2]))
             ELSE ScanLinesLast(rest)

detect_orientation_last(block) == ScanLinesLast(SplitLines(block))

detect_orientation(block) == ScanLines(SplitLines(block))

----------------------------------------------------------------------------
(* extract_words *)

\* float(n) for an integer n, and n / 2, both in halves
FloatOf(n)  == 2 * n
TrueDiv2(n) == n

\* n // 2 as a float, in halves: what floor division would give
FloorDiv2(n) == 2 * (n \div 2)

\* a plausible slip: centers computed with floor division
WordRecordFloor(d, i, text, rotationArg) ==
    LET left   == d.left[i]
        top    == d.top[i]
        width  == d.width[i]
        height == d.height[i]
    IN  [text       |-> text,
         rotation   |-> rotationArg,
         position   |-> [left     |-> left,
                         top      |-> top,
                         right    |-> left + width,
                         bottom   |-> top + height,
                         center_x |-> FloatOf(left) + FloorDiv2(width),
                         center_y |-> FloatOf(top) + FloorDiv2(height)],
         font_size  |-> height,
         confidence |-> FloatOf(d.conf[i])]

\* a plausible slip: the extents subtracted instead of added
WordRecordSwap(d, i, text, rotationArg) ==
    LET left   == d.left[i]
        top    == d.top[i]
        width  == d.width[i]
        height == d.height[i]
    IN  [text       |-> text,
         rotation   |-> rotationArg,
         position   |-> [left     |-> left,
                         top      |-> top,
                         right    |-> left - width,
                         bottom   |-> top - height,
                         center_x |-> FloatOf(left) + TrueDiv2(width),
                         center_y |-> FloatOf(top) + TrueDiv2(height)],
         font_size  |-> height,
         confidence |-> FloatOf(d.conf[i])]

\* the dict appended for token i of table d (lines 56-74)
WordRecord(d, i, text, rotationArg) ==
    LET left   == d.left[i]
        top    == d.top[i]
        width  == d.width[i]
        height == d.height[i]
    IN  [text       |-> text,
         rotation   |-> rotationArg,
         position   |-> [left     |-> left,
                         top      |-> top,
                         right    |-> left + width,
                         bottom   |-> top + height,
                         center_x |-> FloatOf(left) + TrueDiv2(width),
                         center_y |-> FloatOf(top) + TrueDiv2(height)],
         font_size  |-> height,
         confidence |-> FloatOf(d.conf[i])]

\* the for loop of extract_words from index i on
RECURSIVE WordsFrom(_, _, _)
WordsFrom(d, rotationArg, i) ==
    IF i > Len(d.text) THEN <<>>
    ELSE LET text == Strip(d.text[i])
         IN  IF text = <<>> THEN WordsFrom(d, rotationArg, i + 1)
             ELSE <<WordRecord(d, i, text, rotationArg)>>
                      \o WordsFrom(d, rotationArg, i + 1)

\* a plausible slip: the blank test is made on the raw text and the raw text kept
RECURSIVE WordsFromRaw(_, _, _)
WordsFromRaw(d, rotationArg, i) ==
    IF i > Len(d.text) THEN <<>>
    ELSE IF d.text[i] = <<>> THEN WordsFromRaw(d, rotationArg, i + 1)
    ELSE <<WordRecord(d, i, d.text[i], rotationArg)>>
             \o WordsFromRaw(d, rotationArg, i + 1)

extract_words_raw(d, rotationArg) == WordsFromRaw(d, rotationArg, 1)

\* extract_words after the engine has returned the table d
extract_words(d, rotationArg) == WordsFrom(d, rotationArg, 1)

----------------------------------------------------------------------------
(* iter_images *)

SUPPORTED_EXTENSIONS ==
    { <<46, 112, 110, 103>>, <<46, 106, 112, 103>>, <<46, 106, 112, 101, 103>>,  \* ".png", ".jpg", ".jpeg"
      <<46, 116, 105, 102>>, <<46, 116, 105, 102, 102>>, <<46, 98, 109, 112>> }  \* ".tif", ".tiff", ".bmp"

\* PurePath.name: the last component of a path
PathName(p) == SubSeq(p, RFind(p, Slash) + 1, Len(p))

\* PurePath.suffix: from the last dot of the name, unless that dot starts or
\* ends the name
Suffix(p) ==
    LET name == PathName(p)
        i    == RFind(name, Dot)
    IN  IF 1 < i /\ i < Len(name) THEN SubSeq(name, i, Len(name)) ELSE <<>>

\* the components of a path string that count: not the empty ones that
\* doubled or trailing slashes leave, and not "."
RECURSIVE KeptParts(_)
KeptParts(ps) ==
    IF ps = <<>> THEN <<>>
    ELSE IF ps[1] = <<>> \/ ps[1] = <<Dot>> THEN KeptParts(Tail(ps))
    ELSE <<ps[1]>> \o KeptParts(Tail(ps))

PathParts(s) == KeptParts(Split(s, Slash))

\* the root of a path string: exactly two leading slashes are kept as they
\* are, any other number of them is one slash
PathRoot(s) ==
    LET n == Len(s) - Len(LStripOf(s, {Slash}))
    IN  IF n = 0 THEN <<>> ELSE IF n = 2 THEN <<Slash, Slash>> ELSE <<Slash>>

RECURSIVE JoinParts(_)
JoinParts(ps) ==
    IF ps = <<>> THEN <<>>
    ELSE IF Len(ps) = 1 THEN ps[1]
    ELSE ps[1] \o <<Slash>> \o JoinParts(Tail(ps))

\* str(Path(dir) / name) for an entry name that iterdir() yields
JoinPath(dir, name) == PathRoot(dir) \o JoinParts(PathParts(dir) \o <<name>>)

\* a < b for two str: by code point, a proper prefix first
StrLess(a, b) ==
    LET n     == IF Len(a) < Len(b) THEN Len(a) ELSE Len(b)
        diffs == {k \in 1..n : a[k] # b[k]}
    IN  IF diffs = {} THEN Len(a) < Len(b)
        ELSE LET k == CHOOSE x \in diffs : \A y \in diffs : x <= y
             IN  a[k] < b[k]

\* sorted(paths): the paths of one folder share their parent, so the order of
\* the paths is the order of their strings
RECURSIVE Sorted(_)
Sorted(S) ==
    IF S = {} THEN <<>>
    ELSE LET m == CHOOSE x \in S : \A y \in S \ {x} : StrLess(x, y)
         IN  <<m>> \o Sorted(S \ {m})

\* iter_images(folder) for a folder at path dir that holds the entries ents
iter_images(dir, ents) ==
    Sorted({ JoinPath(dir, e.name) : e \in
             {x \in ents : Lower(Suffix(JoinPath(dir, x.name))) \in SUPPORTED_EXTENSIONS} })

----------------------------------------------------------------------------
(* Inputs: what the collaborators may answer *)

\* the line "Rotate: " followed by n zeros
ZerosLine(n) == <<82, 111, 116, 97, 116, 101, 58, 32>> \o [i \in 1..n |-> 48]

\* lines an orientation block is made of
OsdLinePool ==
    { <<82, 111, 116, 97, 116, 101, 58, 32, 57, 48>>,  \* "Rotate: 90"
      <<82, 111, 116, 97, 116, 101, 58, 32, 50, 55, 48>>,  \* "Rotate: 270"
      <<79, 114, 105, 101, 110, 116, 97, 116, 105, 111, 110, 58, 32, 48>>,  \* "Orientation: 0"
      <<82, 111, 116, 97, 116, 101, 32, 57, 48>>,  \* "Rotate 90"
      <<82, 111, 116, 97, 116, 101, 58, 32, 57, 48, 58, 32, 49>>,  \* "Rotate: 90: 1"
      <<82, 111, 116, 97, 116, 101, 58, 32, 120>>,  \* "Rotate: x"
      <<82, 111, 116, 97, 116, 101, 58, 45, 57, 48>>,  \* "Rotate:-90"
      <<>>,
      <<120, 82, 111, 116, 97, 116, 101, 32, 58, 9, 49, 95, 56, 48, 32>>,  \* "xRotate :\t1_80 "
      <<82, 111, 116, 97, 116, 101, 58, 32, 52, 53>>,  \* "Rotate: 45"
      <<114, 111, 116, 97, 116, 101, 58, 32, 57, 48>>,  \* "rotate: 90"
      <<82, 111, 116, 97, 116, 101, 58>>,  \* "Rotate:"
      <<82, 111, 116, 97, 116, 101, 58, 32, 49, 56, 48, 13>>,  \* "Rotate: 180\r", a line ended by CR LF
      <<82, 111, 116, 97, 116, 101, 58, 31, 55, 12>>,  \* "Rotate:\x1f7\x0c", a separator, a form feed
      <<82, 111, 116, 97, 116, 101, 58, 32, 1641, 1632>>,  \* "Rotate: " and the Arabic-Indic digits nine, zero
      ZerosLine(MaxStrDigits),  \* as many digits as int() takes
      ZerosLine(MaxStrDigits + 1) }  \* one digit more

\* the lines ls, each ended by a line break; the last one only when closed
RECURSIVE JoinLines(_, _)
JoinLines(ls, closed) ==
    IF ls = <<>> THEN <<>>
    ELSE IF Len(ls) = 1 THEN (IF closed THEN ls[1] \o <<10>> ELSE ls[1])  \* "\n"
    ELSE ls[1] \o <<10>> \o JoinLines(Tail(ls), closed)  \* "\n"

\* the text blocks image_to_osd may return
OsdBlocks ==
    { JoinLines(ls, closed) :
        ls \in UNION { [1..n -> OsdLinePool] : n \in 0..MaxLines },
        closed \in BOOLEAN }

\* raw texts of a token
TokenTexts ==
    { <<>>,
      <<32, 9>>,  \* " \t"
      <<72, 105>>,  \* "Hi"
      <<32, 97, 32>>,  \* " a "
      <<98, 32, 99>>,  \* "b c"
      <<13, 12, 160>> }  \* "\r\x0c\xa0": a carriage return, a form feed, a no-break space

\* boxes of a token with its confidence: <<left, top, width, height, conf>>
TokenBoxes ==
    { <<10, 10, 50, 20, 95>>, <<5, 5, 1, 1, 0>>, <<0, 0, -3, 7, -1>>,
      <<7, 3, 5, -1, 40>>, <<2, 4, 0, 0, 100>> }

\* the dict of parallel lists image_to_data returns for the tokens toks,
\* each token <<text, <<left, top, width, height, conf>>>>
TableOf(toks) ==
    [text   |-> [i \in 1..Len(toks) |-> toks[i][1]],
     left   |-> [i \in 1..Len(toks) |-> toks[i][2][1]],
     top    |-> [i \in 1..Len(toks) |-> toks[i][2][2]],
     width  |-> [i \in 1..Len(toks) |-> toks[i][2][3]],
     height |-> [i \in 1..Len(toks) |-> toks[i][2][4]],
     conf   |-> [i \in 1..Len(toks) |-> toks[i][2][5]]]

\* the token tables image_to_data may return
TokenTables ==
    { TableOf(toks) :
        toks \in UNION { [1..n -> TokenTexts \X TokenBoxes] : n \in 0..MaxTokens } }

\* rotations extract_words may be given
RotationArgs == {0, 90}

\* the default of --img-dir
ImgDir == <<105, 109, 103>>  \* "img"

\* values of --img-dir: the default, the current directory, and spellings
\* that Path normalises
DirArgs ==
    { ImgDir,
      <<46>>,  \* "."
      <<46, 47, 105, 109, 103, 47>>,  \* "./img/"
      <<47, 47, 115, 114, 118, 47, 47, 115, 99, 97, 110, 115>> }  \* "//srv//scans"

\* names an entry of the image directory may have
EntryNames ==
    { <<97, 46, 80, 78, 71>>,  \* "a.PNG"
      <<98, 46, 106, 112, 103>>,  \* "b.jpg"
      <<99, 46, 116, 120, 116>>,  \* "c.txt"
      <<100, 46, 116, 105, 102, 102>>,  \* "d.tiff"
      <<115, 99, 97, 110, 115, 46, 112, 110, 103>>,  \* "scans.png"
      <<66, 46, 98, 109, 112>>,  \* "B.bmp"
      <<101, 46, 74, 80, 69, 71>>,  \* "e.JPEG"
      <<46, 112, 110, 103>>,  \* ".png"
      <<102, 46, 84, 73, 70>> }  \* "f.TIF"

\* the directories: each name absent, a file or a subdirectory
Folders ==
    { { [name |-> n, kind |-> k[n]] : n \in {m \in EntryNames : k[m] # "absent"} } :
        k \in [EntryNames -> {"absent", "file", "dir"}] }

\* the output file: absent, as an earlier run wrote it, holding the report
\* of this run, cut short by a write that failed, or a path that names a
\* directory
NoFile  == [state |-> "absent", content |-> [images |-> <<>>]]
OldFile ==
    [state |-> "report",
     content |-> [images |-> << [file |-> <<111, 108, 100>>, rotation |-> 0, words |-> <<>>] >>]]  \* "old"
ReportFile(entriesList) == [state |-> "report", content |-> [images |-> entriesList]]
CutFile == [state |-> "truncated", content |-> [images |-> <<>>]]
DirFile == [state |-> "directory", content |-> [images |-> <<>>]]

\* value of orient before detect_orientation has returned
Pending == [ok |-> FALSE, val |-> 0, err |-> "pending"]

----------------------------------------------------------------------------
(* The pure functions, each applied to one drawn input *)

MainIdle ==
    /\ pc = "idle" /\ cmdArg = <<>> /\ envCmd = <<>> /\ tesseract_cmd = "tesseract"
    /\ imgDir = ImgDir /\ imgDirKind = "missing" /\ entries = {}
    /\ outFile0 = NoFile /\ outFile = NoFile
    /\ images = <<>> /\ idx = 0 /\ rotation = 0 /\ result = <<>> /\ calls = <<>>
    /\ exitCode = -1

EmptyTable == TableOf(<<>>)

InitOrient ==
    /\ MainIdle
    /\ phase = "call" /\ osd \in OsdBlocks /\ orient = Pending
    /\ data = EmptyTable /\ rot = 0 /\ words = <<>> /\ folder = {} /\ listing = <<>>

CallDetectOrientation ==
    /\ phase = "call"
    /\ orient' = detect_orientation(osd)
    /\ phase' = "ret"
    /\ UNCHANGED <<mainVars, osd, data, rot, words, folder, listing>>

SpecOrient == InitOrient /\ [][CallDetectOrientation]_vars

InitWords ==
    /\ MainIdle
    /\ phase = "call" /\ data \in TokenTables /\ rot \in RotationArgs /\ words = <<>>
    /\ osd = <<>> /\ orient = Pending /\ folder = {} /\ listing = <<>>

CallExtractWords ==
    /\ phase = "call"
    /\ words' = extract_words(data, rot)
    /\ phase' = "ret"
    /\ UNCHANGED <<mainVars, osd, orient, data, rot, folder, listing>>

SpecWords == InitWords /\ [][CallExtractWords]_vars

InitEnum ==
    /\ pc = "idle" /\ cmdArg = <<>> /\ envCmd = <<>> /\ tesseract_cmd = "tesseract"
    /\ imgDir \in DirArgs /\ imgDirKind = "dir" /\ entries = {}
    /\ outFile0 = NoFile /\ outFile = NoFile
    /\ images = <<>> /\ idx = 0 /\ rotation = 0 /\ result = <<>> /\ calls = <<>>
    /\ exitCode = -1
    /\ phase = "call" /\ folder \in Folders /\ listing = <<>>
    /\ osd = <<>> /\ orient = Pending /\ data = EmptyTable /\ rot = 0 /\ words = <<>>

CallIterImages ==
    /\ phase = "call"
    /\ listing' = iter_images(imgDir, folder)
    /\ phase' = "ret"
    /\ UNCHANGED <<mainVars, osd, orient, data, rot, words, folder>>

SpecEnum == InitEnum /\ [][CallIterImages]_vars

----------------------------------------------------------------------------
(* main(): one run of the program *)

\* the entries the image directory of a run is drawn from
RunEntries ==
    { [name |-> <<97, 46, 80, 78, 71>>, kind |-> "file"], [name |-> <<98, 46, 106, 112, 103>>, kind |-> "file"],  \* "a.PNG", "b.jpg"
      [name |-> <<99, 46, 116, 120, 116>>, kind |-> "file"], [name |-> <<100, 46, 116, 105, 102, 102>>, kind |-> "file"],  \* "c.txt", "d.tiff"
      [name |-> <<115, 99, 97, 110, 115, 46, 112, 110, 103>>, kind |-> "dir"] }  \* "scans.png"

RunFolders == {f \in SUBSET RunEntries : Cardinality(f) <= MaxEntries}

\* the text blocks image_to_osd answers with in a run
RunOsd ==
    { <<79, 114, 105, 101, 110, 116, 97, 116, 105, 111, 110, 58, 32, 48, 10, 82, 111, 116, 97, 116, 101, 58, 32, 48, 10>>,  \* "Orientation: 0\nRotate: 0\n"
      <<82, 111, 116, 97, 116, 101, 58, 32, 57, 48, 10, 82, 111, 116, 97, 116, 101, 58, 32, 52, 53, 10>>,  \* "Rotate: 90\nRotate: 45\n"
      <<82, 111, 116, 97, 116, 101, 58, 32, 52, 53, 10>>,  \* "Rotate: 45\n"
      <<>>,
      <<82, 111, 116, 97, 116, 101, 32, 57, 48>> }  \* "Rotate 90"

\* the token tables image_to_data answers with in a run
RunTables ==
    { TableOf(<< <<<<72, 101, 108, 108, 111>>, <<10, 10, 50, 20, 95>>>>, <<<<>>, <<5, 5, 1, 1, 0>>>> >>),  \* "Hello"
      EmptyTable }

\* an answer of a collaborator: it returned ret, it returned a value that
\* says no (None of shutil.which, False of is_dir), or it raised
Answer(r)  == [ok |-> TRUE, ret |-> r, raised |-> FALSE]
Negative   == [ok |-> FALSE, ret |-> <<>>, raised |-> FALSE]
Failure    == [ok |-> FALSE, ret |-> <<>>, raised |-> TRUE]

\* the record of one call: op on image number img (0: no image)
Call(op, img, ans) ==
    [op |-> op, img |-> img, ok |-> ans.ok, ret |-> ans.ret, raised |-> ans.raised]

\* x or y, for two optional strings
Truthy(o) == o # <<>> /\ o[1] # ""
PyOr(x, y) == IF Truthy(x) THEN x ELSE y

\* the exit status of an interpreter that could not flush stdout or stderr
\* as it exits
FlushFailed == 120

\* the exit statuses of a run that ends with status: what the run wrote to
\* stdout or stderr (a message, a traceback, the help text) may fail to be
\* flushed as the interpreter exits
Exits(status) == {status, FlushFailed}

\* values of --img-dir in a run
RunDirArgs == { ImgDir, <<46>> }  \* "."

Init ==
    /\ pc = "args"
    /\ imgDir \in RunDirArgs
    /\ cmdArg \in {<<>>, <<"">>, <<"/opt/tesseract">>}
    /\ envCmd \in {<<>>, <<"/usr/bin/tesseract">>}
    /\ tesseract_cmd = "tesseract"
    /\ imgDirKind \in (IF imgDir = ImgDir THEN {"missing", "file", "dir", "denied"}
                       ELSE {"missing", "dir", "denied"})
    /\ entries \in (IF imgDirKind = "dir" THEN RunFolders ELSE {{}})
    /\ outFile0 \in {NoFile, OldFile, DirFile}
    /\ outFile = outFile0
    /\ images = <<>> /\ idx = 0 /\ rotation = 0 /\ result = <<>> /\ calls = <<>>
    /\ exitCode = -1
    /\ phase = "idle" /\ osd = <<>> /\ orient = Pending /\ data = EmptyTable
    /\ rot = 0 /\ words = <<>> /\ folder = {} /\ listing = <<>>

\* lines 86-101: parser.parse_args() returns args, or ends the run: status 2
\* on a usage error, status 0 after --help, and status FlushFailed when the
\* usage message or the help text cannot be flushed
ParseArgs ==
    /\ pc = "args"
    /\ \E outcome \in {"parsed", "usage", "help"} :
          /\ pc' = CASE outcome = "parsed" -> "start"
                     [] outcome = "usage" -> "exit_usage"
                     [] OTHER -> "exit_help"
          /\ exitCode' \in CASE outcome = "parsed" -> {exitCode}
                            [] outcome = "usage" -> Exits(2)
                            [] OTHER -> Exits(0)
    /\ UNCHANGED <<cmdArg, envCmd, tesseract_cmd, imgDir, imgDirKind, entries, outFile0,
                   outFile, images, idx, rotation, result, calls, fnVars>>

\* a plausible slip: the check does not stop the run when the executable is
\* not found
ConfigureTesseractNoExit ==
    /\ pc = "start"
    /\ \E found \in BOOLEAN :
          /\ tesseract_cmd' = (IF Truthy(PyOr(cmdArg, envCmd))
                               THEN PyOr(cmdArg, envCmd)[1] ELSE tesseract_cmd)
          /\ calls' = calls \o << Call("which", 0, IF found THEN Answer(<<>>) ELSE Negative),
                                  Call("version", 0, Answer(<<>>)) >>
          /\ pc' = "configured"
          /\ exitCode' = exitCode
    /\ UNCHANGED <<cmdArg, envCmd, imgDir, imgDirKind, entries, outFile0, outFile, images,
                   idx, rotation, result, fnVars>>

\* line 103: configure_tesseract(args.tesseract_cmd)
ConfigureTesseract ==
    /\ pc = "start"
    /\ \E found \in BOOLEAN, version \in {"ok", "TesseractNotFoundError", "other"} :
          /\ tesseract_cmd' = (IF Truthy(PyOr(cmdArg, envCmd))
                               THEN PyOr(cmdArg, envCmd)[1] ELSE tesseract_cmd)
          /\ IF ~found
             THEN /\ calls' = Append(calls, Call("which", 0, Negative))
                  /\ pc' = "exit_engine"
                  /\ exitCode' \in Exits(1)
             ELSE /\ calls' = calls \o << Call("which", 0, Answer(<<>>)),
                                          Call("version", 0,
                                               IF version = "ok" THEN Answer(<<>>) ELSE Failure) >>
                  /\ pc' = CASE version = "ok" -> "configured"
                             [] version = "TesseractNotFoundError" -> "exit_engine"
                             [] OTHER -> "crashed"
                  /\ exitCode' \in (IF version = "ok" THEN {exitCode} ELSE Exits(1))
    /\ UNCHANGED <<cmdArg, envCmd, imgDir, imgDirKind, entries, outFile0, outFile, images,
                   idx, rotation, result, fnVars>>

\* a plausible slip: the report is written before the directory is checked
CheckImgDirWritesFirst ==
    /\ pc = "configured"
    /\ IF imgDirKind # "dir"
       THEN /\ calls' = calls \o << Call("write", 0, Answer(<<>>)),
                                    Call("is_dir", 0, IF imgDirKind = "denied"
                                                      THEN Failure ELSE Negative) >>
            /\ outFile' = ReportFile(<<>>)
            /\ pc' = IF imgDirKind = "denied" THEN "crashed" ELSE "exit_dir"
            /\ exitCode' \in Exits(1)
            /\ UNCHANGED <<images, idx, result>>
       ELSE /\ calls' = calls \o << Call("is_dir", 0, Answer(<<>>)), Call("iterdir", 0, Answer(<<>>)) >>
            /\ images' = iter_images(imgDir, entries)
            /\ idx' = 1
            /\ result' = <<>>
            /\ pc' = "loop"
            /\ UNCHANGED <<outFile, exitCode>>
    /\ UNCHANGED <<cmdArg, envCmd, tesseract_cmd, imgDir, imgDirKind, entries, outFile0,
                   rotation, fnVars>>

\* lines 105-110: the directory check, then result and the list the loop
\* walks; is_dir() raises when stat() is refused on the path, and iterdir()
\* may raise on a directory that cannot be read
CheckImgDir ==
    /\ pc = "configured"
    /\ IF imgDirKind # "dir"
       THEN /\ calls' = Append(calls, Call("is_dir", 0, IF imgDirKind = "denied"
                                                        THEN Failure ELSE Negative))
            /\ pc' = IF imgDirKind = "denied" THEN "crashed" ELSE "exit_dir"
            /\ exitCode' \in Exits(1)
            /\ UNCHANGED <<images, idx, result>>
       ELSE \E listed \in {Answer(<<>>), Failure} :
            /\ calls' = calls \o << Call("is_dir", 0, Answer(<<>>)), Call("iterdir", 0, listed) >>
            /\ IF listed.ok
               THEN /\ images' = iter_images(imgDir, entries)
                    /\ idx' = 1
                    /\ result' = <<>>
                    /\ pc' = "loop"
                    /\ UNCHANGED exitCode
               ELSE /\ pc' = "crashed"
                    /\ exitCode' \in Exits(1)
                    /\ UNCHANGED <<images, idx, result>>
    /\ UNCHANGED <<cmdArg, envCmd, tesseract_cmd, imgDir, imgDirKind, entries, outFile0, outFile,
                   rotation, fnVars>>

\* the kind of the directory entry a path names
KindOf(path) == (CHOOSE e \in entries : JoinPath(imgDir, e.name) = path).kind

\* line 111: Image.open(image_path); a directory cannot be opened
OpenImage ==
    /\ pc = "loop"
    /\ idx <= Len(images)
    /\ \E ans \in (IF KindOf(images[idx]) = "dir" THEN {Failure} ELSE {Answer(<<>>), Failure}) :
          /\ calls' = Append(calls, Call("open", idx, ans))
          /\ pc' = IF ans.ok THEN "opened" ELSE "crashed"
          /\ exitCode' \in (IF ans.ok THEN {exitCode} ELSE Exits(1))
    /\ UNCHANGED <<cmdArg, envCmd, tesseract_cmd, imgDir, imgDirKind, entries, outFile0, outFile,
                   images, idx, rotation, result, fnVars>>

\* a plausible slip: an engine failure is caught and the image skipped
DetectOrientationSkipsFailure ==
    /\ pc = "opened"
    /\ \E ans \in {Answer(b) : b \in RunOsd} \cup {Failure} :
          /\ calls' = Append(calls, Call("osd", idx, ans))
          /\ IF ~ans.ok
             THEN pc' = "loop" /\ idx' = idx + 1 /\ UNCHANGED <<rotation, exitCode>>
             ELSE IF detect_orientation(ans.ret).ok
             THEN /\ rotation' = detect_orientation(ans.ret).val
                  /\ pc' = "oriented"
                  /\ UNCHANGED <<idx, exitCode>>
             ELSE pc' = "crashed" /\ exitCode' \in Exits(1) /\ UNCHANGED <<idx, rotation>>
    /\ UNCHANGED <<cmdArg, envCmd, tesseract_cmd, imgDir, imgDirKind, entries, outFile0, outFile,
                   images, result, fnVars>>

\* line 112: rotation = detect_orientation(image)
DetectOrientation ==
    /\ pc = "opened"
    /\ \E ans \in {Answer(b) : b \in RunOsd} \cup {Failure} :
          /\ calls' = Append(calls, Call("osd", idx, ans))
          /\ IF ans.ok /\ detect_orientation(ans.ret).ok
             THEN /\ rotation' = detect_orientation(ans.ret).val
                  /\ pc' = "oriented"
                  /\ UNCHANGED exitCode
             ELSE /\ pc' = "crashed"
                  /\ exitCode' \in Exits(1)
                  /\ UNCHANGED rotation
    /\ UNCHANGED <<cmdArg, envCmd, tesseract_cmd, imgDir, imgDirKind, entries, outFile0, outFile,
                   images, idx, result, fnVars>>

\* a plausible slip: the words are given rotation 0, not the detected one
ExtractWordsUnrotated ==
    /\ pc = "oriented"
    /\ \E ans \in {Answer(tb) : tb \in RunTables} \cup {Failure} :
          /\ calls' = Append(calls, Call("data", idx, ans))
          /\ IF ans.ok
             THEN /\ result' = Append(result, [file     |-> images[idx],
                                               rotation |-> rotation,
                                               words    |-> extract_words(ans.ret, 0)])
                  /\ idx' = idx + 1
                  /\ pc' = "loop"
                  /\ UNCHANGED exitCode
             ELSE /\ pc' = "crashed"
                  /\ exitCode' \in Exits(1)
                  /\ UNCHANGED <<result, idx>>
    /\ UNCHANGED <<cmdArg, envCmd, tesseract_cmd, imgDir, imgDirKind, entries, outFile0, outFile,
                   images, rotation, fnVars>>

\* lines 113-120: words = extract_words(image, rotation), then the append
ExtractWords ==
    /\ pc = "oriented"
    /\ \E ans \in {Answer(tb) : tb \in RunTables} \cup {Failure} :
          /\ calls' = Append(calls, Call("data", idx, ans))
          /\ IF ans.ok
             THEN /\ result' = Append(result, [file     |-> images[idx],
                                               rotation |-> rotation,
                                               words    |-> extract_words(ans.ret, rotation)])
                  /\ idx' = idx + 1
                  /\ pc' = "loop"
                  /\ UNCHANGED exitCode
             ELSE /\ pc' = "crashed"
                  /\ exitCode' \in Exits(1)
                  /\ UNCHANGED <<result, idx>>
    /\ UNCHANGED <<cmdArg, envCmd, tesseract_cmd, imgDir, imgDirKind, entries, outFile0, outFile,
                   images, rotation, fnVars>>

\* lines 122-124: write_text opens the output file, which empties it, and
\* writes the report; then print. The open may raise (the file is left as it
\* was) and always does on a directory, the write may raise (the file is
\* left cut short), print may raise (the report is in place). When print
\* returned, main() returns and the status is 0, or FlushFailed when the
\* message print left in the buffer of stdout cannot be flushed.
WriteOutput ==
    /\ pc = "loop"
    /\ idx > Len(images)
    /\ \E outcome \in (IF outFile = DirFile THEN {"open_raises"}
                       ELSE {"written", "open_raises", "write_raises", "print_raises"}) :
          /\ outFile' = CASE outcome = "open_raises" -> outFile
                          [] outcome = "write_raises" -> CutFile
                          [] OTHER -> ReportFile(result)
          /\ calls' = Append(calls, Call("write", 0,
                                         IF outcome \in {"open_raises", "write_raises"}
                                         THEN Failure ELSE Answer(<<>>)))
          /\ pc' = IF outcome = "written" THEN "done" ELSE "crashed"
          /\ exitCode' \in (IF outcome = "written" THEN Exits(0) ELSE Exits(1))
    /\ UNCHANGED <<cmdArg, envCmd, tesseract_cmd, imgDir, imgDirKind, entries, outFile0,
                   images, idx, rotation, result, fnVars>>

Next ==
    \/ ParseArgs
    \/ ConfigureTesseract
    \/ CheckImgDir
    \/ OpenImage
    \/ DetectOrientation
    \/ ExtractWords
    \/ WriteOutput

Spec == Init /\ [][Next]_vars

----------------------------------------------------------------------------
(* Properties of detect_orientation *)

\* whether some line of a block holds the marker
HasRotate(block) ==
    \E i \in 1..Len(SplitLines(block)) : Contains(SplitLines(block)[i], Rotate)

\* the first line of a block that holds the marker
FirstRotateLine(block) ==
    LET lines == SplitLines(block)
    IN  lines[CHOOSE i \in 1..Len(lines) :
                 /\ Contains(lines[i], Rotate)
                 /\ \A j \in 1..(i - 1) : ~Contains(lines[j], Rotate)]

\* what follows the first colon of a line that has one
AfterFirstColon(line) == SubSeq(line, Find(line, Colon) + 1, Len(line))

\* the integer read after the first colon of the first marker line, white
\* space around it trimmed, 0 when no line holds the marker; no integer can
\* be read when that line has no colon or when what follows its first colon
\* is not an integer literal
StatedOrientation(block) ==
    IF ~HasRotate(block) THEN Returned(0)
    ELSE IF Find(FirstRotateLine(block), Colon) = 0 THEN Raised("ValueError")
    ELSE PyInt(Strip(AfterFirstColon(FirstRotateLine(block))))

\* C4: detect_orientation returns the integer parsed from what follows the
\* first colon of the first line containing "Rotate" (later such lines are
\* ignored, and it fails exactly when no integer can be parsed there); it
\* returns 0 when no line contains "Rotate"; a first marker line "Rotate: 90"
\* gives 90, and one whose literal has more digits than int() takes gives no
\* integer.
C4_FirstRotateLineDecides ==
    phase = "ret" =>
        /\ orient = StatedOrientation(osd)
        /\ (~HasRotate(osd) => orient = Returned(0))
        /\ (HasRotate(osd) /\ FirstRotateLine(osd) = ZerosLine(MaxStrDigits) => orient = Returned(0))
        /\ (HasRotate(osd) /\ FirstRotateLine(osd) = ZerosLine(MaxStrDigits + 1) => ~orient.ok)
        /\ (HasRotate(osd) /\ FirstRotateLine(osd) = <<82, 111, 116, 97, 116, 101, 58, 32, 57, 48>> => orient = Returned(90))  \* "Rotate: 90"

\* two conflicting marker lines: the first one, 90, is the result
C4_Witness ==
    /\ phase = "ret"
    /\ SplitLines(osd) = << <<82, 111, 116, 97, 116, 101, 58, 32, 57, 48>>, <<82, 111, 116, 97, 116, 101, 58, 32, 50, 55, 48>> >>  \* "Rotate: 90", "Rotate: 270"
    /\ orient = Returned(90)

----------------------------------------------------------------------------
(* Properties of extract_words *)

IsBlank(s) == \A i \in 1..Len(s) : s[i] \in Whitespace

\* indices of the engine's tokens whose text is not blank, and the k-th of them
KeptTokens == {i \in 1..Len(data.text) : ~IsBlank(data.text[i])}
KthKept(k) == CHOOSE i \in KeptTokens : Cardinality({j \in KeptTokens : j < i}) = k - 1

\* t is raw without its leading and trailing whitespace
IsTrimOf(t, raw) ==
    /\ t # <<>>
    /\ t[1] \notin Whitespace
    /\ t[Len(t)] \notin Whitespace
    /\ \E a \in 0..(Len(raw) - Len(t)) :
          /\ SubSeq(raw, a + 1, a + Len(t)) = t
          /\ \A j \in 1..a : raw[j] \in Whitespace
          /\ \A j \in (a + Len(t) + 1)..Len(raw) : raw[j] \in Whitespace

\* C5: the records are the engine's tokens without the blank ones, in the
\* engine's order, each with its trimmed text; so no record is blank, there
\* are at most as many records as tokens, as many only when no token is
\* blank, and an empty table gives an empty sequence.
C5_NonBlankTokensInOrder ==
    phase = "ret" =>
        /\ DOMAIN words = 1..Cardinality(KeptTokens)
        /\ \A k \in 1..Len(words) : IsTrimOf(words[k].text, data.text[KthKept(k)])
        /\ \A k \in 1..Len(words) : ~IsBlank(words[k].text)
        /\ Len(words) <= Len(data.text)
        /\ (Len(words) = Len(data.text) <=> \A i \in 1..Len(data.text) : ~IsBlank(data.text[i]))
        /\ (Len(data.text) = 0 => words = <<>>)

\* a whitespace-only token dropped, and the token after it kept with its text trimmed
C5_Witness ==
    /\ phase = "ret"
    /\ Len(data.text) = 2
    /\ data.text[1] # <<>> /\ IsBlank(data.text[1])
    /\ Len(words) = 1
    /\ words[1].text # data.text[2]

\* C6: each record's geometry is computed from its token's box: right is
\* left + width, bottom is top + height, the centers are left + width/2 and
\* top + height/2 as true halves (here in half pixels: 2*left + width),
\* left and top are copied and font_size is the height.
C6_BoxGeometry ==
    phase = "ret" =>
        \A k \in 1..Len(words) :
            LET i == KthKept(k)
                p == words[k].position
            IN  /\ p.left = data.left[i]
                /\ p.top = data.top[i]
                /\ p.right = data.left[i] + data.width[i]
                /\ p.bottom = data.top[i] + data.height[i]
                /\ p.center_x = 2 * data.left[i] + data.width[i]
                /\ p.center_y = 2 * data.top[i] + data.height[i]
                /\ words[k].font_size = data.height[i]

\* a record of a box of odd width and odd height: both centers end in .5
C6_Witness ==
    /\ phase = "ret"
    /\ \E k \in 1..Len(words) :
          /\ words[k].position.center_x % 2 = 1
          /\ words[k].position.center_y % 2 = 1
          /\ data.width[KthKept(k)] = 1

\* C7 as stated: every record has right >= left and bottom >= top, whatever
\* the engine returns.
C7_BoxNeverInverted ==
    phase = "ret" =>
        \A k \in 1..Len(words) :
            /\ words[k].position.right >= words[k].position.left
            /\ words[k].position.bottom >= words[k].position.top

\* C7 as amended: a record has right >= left exactly when its token's width
\* is not negative, and bottom >= top exactly when its height is not negative.
C7_BoxInvertedIffNegativeExtent ==
    phase = "ret" =>
        \A k \in 1..Len(words) :
            /\ (words[k].position.right >= words[k].position.left
                    <=> data.width[KthKept(k)] >= 0)
            /\ (words[k].position.bottom >= words[k].position.top
                    <=> data.height[KthKept(k)] >= 0)

\* a table with a token of negative width beside one of positive width
C7_Witness ==
    /\ phase = "ret"
    /\ Len(words) = 2
    /\ data.width[KthKept(1)] < 0 /\ words[1].position.right < words[1].position.left
    /\ data.width[KthKept(2)] > 0 /\ words[2].position.right > words[2].position.left

----------------------------------------------------------------------------
(* Properties of iter_images *)

IsSortedAsc(ps) == \A i \in 1..(Len(ps) - 1) : StrLess(ps[i], ps[i + 1])

\* the entries that are files and carry a supported extension
SupportedFiles(ents) ==
    {e \in ents : e.kind = "file" /\ Lower(Suffix(e.name)) \in SUPPORTED_EXTENSIONS}

\* C8: iter_images returns, sorted ascending, exactly the entries that are
\* files with a supported extension (compared without case); other files and
\* every subdirectory are left out.
C8_OnlySupportedFiles ==
    phase = "ret" =>
        /\ IsSortedAsc(listing)
        /\ {listing[i] : i \in 1..Len(listing)}
               = {JoinPath(imgDir, e.name) : e \in SupportedFiles(folder)}
        /\ Len(listing) = Cardinality(SupportedFiles(folder))

----------------------------------------------------------------------------
(* Properties of main() *)

IsImageCall(c) == c.img > 0

\* the calls made on images, in order
ImageCalls == SelectSeq(calls, IsImageCall)

\* the ops the run has made so far
Ops == {calls[k].op : k \in 1..Len(calls)}

\* the orientation call made on image number i
OsdCallOf(i) == calls[CHOOSE k \in 1..Len(calls) : calls[k].op = "osd" /\ calls[k].img = i]

\* a run that has ended with a status that is not 0
EndedInError == exitCode \notin {-1, 0}

\* C1: with an image directory that is missing, not a directory or not to be
\* examined a run never enters the loop, and once it has ended its exit
\* status is not 0 (a run that was only asked for the help text aside) and
\* the output file is as it was at the start; when a run ends in the
\* directory error the exit status is not 0, the output file is as it was at
\* the start, and no image was opened or given to the engine.
C1_MissingDirLeavesOutput ==
    /\ imgDirKind # "dir" =>
          /\ pc \in {"args", "exit_usage", "exit_help", "start", "configured",
                    "exit_engine", "exit_dir", "crashed"}
          /\ (exitCode # -1 /\ pc # "exit_help") => exitCode # 0
          /\ pc \in {"start", "configured"} => exitCode = -1
          /\ outFile = outFile0
    /\ pc = "exit_dir" =>
          /\ imgDirKind \in {"missing", "file"}
          /\ EndedInError
          /\ outFile = outFile0
          /\ Ops \cap {"open", "osd", "data", "write"} = {}

\* the directory error with an older report in place
C1_Witness ==
    /\ pc = "exit_dir"
    /\ imgDirKind = "missing"
    /\ outFile0 = OldFile
    /\ calls[Len(calls)] = Call("is_dir", 0, Negative)

\* C2: a failed engine call is the last call of the run: the run has crashed
\* with the output file untouched, so no later image is processed and no
\* partial report exists; a report is written only after both engine calls
\* succeeded on every enumerated image.
C2_EngineFailureAbortsRun ==
    /\ \A k \in 1..Len(calls) :
          (calls[k].op \in {"osd", "data"} /\ ~calls[k].ok) =>
              /\ k = Len(calls)
              /\ pc = "crashed"
              /\ EndedInError
              /\ outFile = outFile0
              /\ \A j \in 1..Len(calls) : calls[j].img <= calls[k].img
    /\ "write" \in Ops =>
          \A i \in 1..Len(images) :
              \A op \in {"osd", "data"} :
                  \E k \in 1..Len(calls) :
                      calls[k].op = op /\ calls[k].img = i /\ calls[k].ok

\* the engine fails on the second of three images: the first image's entry
\* exists in memory, and no file has been created
C2_Witness ==
    /\ pc = "crashed"
    /\ Len(images) = 3
    /\ Len(result) = 1
    /\ calls[Len(calls)] = Call("data", 2, Failure)
    /\ outFile0 = NoFile /\ outFile = NoFile

\* C3: the engine check is the first thing a run does; when the executable
\* is not found or not runnable the run ends there with status 1: only the
\* check's own calls were made, no image list or result exists and the
\* output file is as it was.
C3_EngineCheckFirst ==
    /\ calls # <<>> => calls[1].op = "which"
    /\ \A k \in 1..Len(calls) :
          (calls[k].op = "which" /\ ~calls[k].ok) => (k = Len(calls) /\ pc = "exit_engine")
    /\ \A k \in 1..Len(calls) :
          (calls[k].op = "version" /\ ~calls[k].ok) =>
              (k = Len(calls) /\ pc \in {"exit_engine", "crashed"})
    /\ pc = "exit_engine" =>
          /\ EndedInError
          /\ Ops \subseteq {"which", "version"}
          /\ ~calls[Len(calls)].ok
          /\ images = <<>> /\ result = <<>> /\ idx = 0
          /\ outFile = outFile0

\* the executable is not found and the image directory is missing as well:
\* the run ends in the engine error
C3_Witness ==
    /\ pc = "exit_engine"
    /\ imgDirKind = "missing"
    /\ calls = << Call("which", 0, Negative) >>

\* what C9 says of one state
C9_State ==
    /\ \A k \in 1..Len(ImageCalls) :
          /\ ImageCalls[k].img = ((k - 1) \div 3) + 1
          /\ ImageCalls[k].op = <<"open", "osd", "data">>[((k - 1) % 3) + 1]
    /\ IsSortedAsc(images)
    /\ Len(result) <= Len(images)
    /\ \A i \in 1..Len(result) :
          /\ result[i].file = images[i]
          /\ result[i].rotation = detect_orientation(OsdCallOf(i).ret).val
          /\ \A w \in 1..Len(result[i].words) :
                result[i].words[w].rotation = result[i].rotation
    /\ pc = "done" =>
          /\ outFile = ReportFile(result)
          /\ Len(result) = Len(images)

\* C9: images are handled one at a time in sorted order, each opened, then
\* oriented, then tokenised; the result list only grows at its end; a
\* finished run's report has one entry per enumerated image in that order,
\* with the image's detected rotation, which each of its words carries.
C9_SequentialInSortedOrder ==
    /\ []C9_State
    /\ [][Len(result') >= Len(result) /\ SubSeq(result', 1, Len(result)) = result]_vars

\* a finished run over two images with different rotations and a word
C9_Witness ==
    /\ pc = "done"
    /\ Len(outFile.content.images) = 2
    /\ outFile.content.images[1].rotation = 90
    /\ outFile.content.images[2].rotation = 0
    /\ Len(outFile.content.images[1].words) = 1

ValidRotations == {0, 90, 180, 270}

\* C10 as stated: every entry of the report has a rotation in
\* {0, 90, 180, 270}, whatever the engine returns.
C10_RotationInRange ==
    \A i \in 1..Len(outFile.content.images) :
        outFile.content.images[i].rotation \in ValidRotations

\* C10 as amended: every entry's rotation is the integer the engine reported
\* on the first "Rotate" line for that image (0 without such a line), so it
\* is in {0, 90, 180, 270} exactly when the reported integer is.
C10_RotationAsReported ==
    (\E k \in 1..Len(calls) : calls[k].op = "write" /\ calls[k].ok) =>
        \A i \in 1..Len(outFile.content.images) :
            LET r == outFile.content.images[i].rotation
                stated == StatedOrientation(OsdCallOf(i).ret)
            IN  /\ stated.ok
                /\ r = stated.val
                /\ (r \in ValidRotations <=> stated.val \in ValidRotations)

\* a report with an entry of rotation 45 beside one of rotation 90
C10_Witness ==
    /\ pc = "done"
    /\ Len(outFile.content.images) = 2
    /\ outFile.content.images[1].rotation = 45
    /\ outFile.content.images[2].rotation = 90

====
